---- MODULE Spec2Model ----
(***************************************************************************)
(* Outbound-mail domain rotation and quota (DomainService) and the tiered  *)
(* delivery policy built on it (MailService.sendEmail).                    *)
(*                                                                         *)
(* Every `await` of the TypeScript source is a point where another request *)
(* may run, so each handler is cut into one action per await; the          *)
(* synchronous code between two awaits is one atomic step.                 *)
(***************************************************************************)
EXTENDS Integers, Sequences, FiniteSets

(* ---------------------------------------------------------------- bounds *)
NumProcs   == 2      \* concurrent sendEmail callers
MaxCalls   == 2      \* sendEmail calls started in one behaviour
MaxDomains == 2      \* documents in smtp_domains
MaxLimit   == 2      \* largest DomainConfig.limit
MaxOrder   == 1      \* largest DomainConfig.order
MaxTicks   == 2      \* clock advances (half a window each)

(* ------------------------------------------------------------- constants *)
WINDOW_MS  == 60 * 60 * 1000          \* domainService.ts:155, :179
HalfWindow == WINDOW_MS \div 2        \* granularity of the modelled clock

Procs   == 1..NumProcs
Limits  == 0..MaxLimit
Orders  == 0..MaxOrder

PremiumVars == {"MAILCHIMP_API_KEY", "MAILCHIMP_SERVER_PREFIX"}
StaticVars  == {"SMTP_HOST", "SMTP_PORT", "SMTP_USERNAME", "SMTP_PASSWORD"}
SmtpDevVars == {"SMTPDEV_API_KEY", "SMTPDEV_ACCOUNT_ID", "SMTPDEV_MAILBOX_ID"}
EnvVars     == PremiumVars \cup StaticVars \cup SmtpDevVars

VARIABLES
    smtp_domains,        \* collection smtp_domains, in storage order
    smtp_domain_usage,   \* collection smtp_domain_usage; _id = position
    env,                 \* the process.env names that hold a non-empty value
    now,                 \* wall clock, milliseconds
    pc,                  \* per caller: the await it is suspended at
    isPro,               \* per caller: sendEmail's isPro
    domains,             \* per caller: getNextAvailableDomain's `domains`
    idx,                 \* per caller: position of the for-of loop
    usage,               \* per caller: the `usage` object of getUsageDoc
    domain,              \* per caller: sendEmail's `domain` (id, 0 = none)
    outcome,             \* per caller: what the last call returned or threw
    attempts,            \* per caller: transports tried by the current call
    recorded,            \* per caller: recordUsage invocations of the call
    allocated,           \* per caller: what getNextAvailableDomain returned
    calls,               \* number of sendEmail calls started
    sendLog,             \* every successful transport send, with its time
    raceSeen,            \* per domain: seen available while a send was in flight
    interleaved,         \* per domain: written between another's read and write
    recordFailed,        \* per domain: a recordUsage ended in an error
    recordedInWindow,    \* per domain: recordUsage completions in the window
    doc,                 \* per caller: addDomain's `config`, then its `doc`
    responses,           \* per request: status codes sent by authenticate
    nextCalls            \* per request: calls of next() by authenticate

(* what no step of sendEmail or receiveEmails changes: the registry, the   *)
(* environment, and the state of addDomain and authenticate                *)
config  == <<smtp_domains, env, doc, responses, nextCalls>>
locals  == <<isPro, domains, idx, usage, domain>>
ghosts  == <<raceSeen, interleaved, recordFailed, recordedInWindow>>
trace   == <<attempts, recorded, allocated>>
vars    == <<smtp_domains, smtp_domain_usage, env, now, pc, isPro, domains,
             idx, usage, domain, outcome, attempts, recorded, allocated, calls,
             sendLog,
             raceSeen, interleaved, recordFailed, recordedInWindow,
             doc, responses, nextCalls>>

(* ------------------------------------------------------------ data model *)
DomainIds == 1..(MaxDomains + 1)

(* no addDomain call in progress *)
NoConfig == [limit |-> 0, order |-> 0, hasOrder |-> FALSE]

NoDoc == [_id |-> 0, domain_id |-> 0, window_start |-> 0, count |-> 0]

Via(kind, id) == [kind |-> kind, id |-> id]
NoVia         == Via("none", 0)
Pending       == [status |-> "pending", via |-> NoVia]
NotCalled     == [status |-> "none", via |-> NoVia]
Returned(v)   == [status |-> "returned", via |-> v]
Thrown(e)     == [status |-> e, via |-> NoVia]

(* one static value taken for all four *)
StaticConfiguredAny == StaticVars \cap env # {}

(* mailService.ts line 107 *)
StaticConfigured  == StaticVars \subseteq env

(* one test-mailbox credential taken for all three *)
SmtpDevConfiguredAny == SmtpDevVars \cap env # {}

(* mailService.ts lines 132 and 177 *)
SmtpDevConfigured == SmtpDevVars \subseteq env

(* one credential taken for both *)
PremiumConfiguredEither == PremiumVars \cap env # {}

(* mailService.ts line 48 *)
PremiumConfigured == PremiumVars \subseteq env

(* permutations of 1..n *)
Perms(n) == {f \in [1..n -> 1..n] : \A i, j \in 1..n : i # j => f[i] # f[j]}

(* the query without its sort: storage order *)
getDomainsUnsorted(coll) == {coll}

(* find().sort({order: 1}).toArray(): every arrangement of the collection *)
(* that ascends in `order`; documents of equal order come in any order    *)
getDomains(coll) ==
    LET n == Len(coll)
    IN  {[i \in 1..n |-> coll[f[i]]] : f \in
            {g \in Perms(n) : \A i, j \in 1..n :
                 i < j => coll[g[i]].order <= coll[g[j]].order}}

(* findOne({domain_id}): position of the first matching document, 0 = null *)
findOne(coll, d) ==
    IF \E i \in 1..Len(coll) : coll[i].domain_id = d
    THEN CHOOSE i \in 1..Len(coll) :
             /\ coll[i].domain_id = d
             /\ \A j \in 1..Len(coll) : coll[j].domain_id = d => i <= j
    ELSE 0

(* updateOne({_id}, {$set: {window_start, count}}) *)
updateOne(coll, u) ==
    [coll EXCEPT ![u._id] = [@ EXCEPT !.window_start = u.window_start,
                                      !.count = u.count]]

(* insertOne(newUsage) *)
insertOne(coll, u) ==
    Append(coll, [domain_id |-> u.domain_id,
                  window_start |-> u.window_start, count |-> u.count])

(* hasQuota, line 155: the window test *)
WindowExpired(u) == now - u.window_start >= WINDOW_MS

(* the comparison off by one *)
AvailableOffByOne(u, d) == u.count <= d.limit

(* hasQuota, line 164 *)
Available(u, d) == u.count < d.limit

(* the else branch of line 184 lost *)
IncrementedForgets(u) ==
    IF now - u.window_start >= WINDOW_MS
    THEN [u EXCEPT !.window_start = now, !.count = 1]
    ELSE u

(* incrementUsage, lines 177-185: the record it is about to persist *)
Incremented(u) ==
    IF WindowExpired(u)
    THEN [u EXCEPT !.window_start = now, !.count = 1]
    ELSE [u EXCEPT !.count = u.count + 1]

(* --------------------------------------------------------- control flow *)
Goto(p, l) ==
    /\ pc' = [pc EXCEPT ![p] = l]
    /\ UNCHANGED outcome

Finish(p, oc) ==
    /\ pc' = [pc EXCEPT ![p] = "idle"]
    /\ outcome' = [outcome EXCEPT ![p] = oc]

(* sendEmail lines 101-154 up to the first await: the catch block or the   *)
(* `if (domain)` that failed leads here                                     *)
FallThrough(p) ==
    IF StaticConfigured THEN Goto(p, "staticSend")
    ELSE IF SmtpDevConfigured THEN Goto(p, "smtpDevPost")
    ELSE Finish(p, Thrown("TransportExhausted"))

WritePcs   == {"hq_insert", "hq_update", "iu_insert", "iu_update"}
RecordPcs  == {"iu_find", "iu_insert", "iu_update"}
AllocPcs   == {"getDomains", "hq_find", "hq_insert", "hq_update"}
InFlight(q, d)     == pc[q] \in ({"sendMail"} \cup RecordPcs) /\ domain[q] = d
PendingWrite(q, d) == pc[q] \in WritePcs /\ usage[q].domain_id = d

(* bookkeeping of a write by p to the usage document `id` of domain d *)
NoteWrite(p, d, id, ws, inc) ==
    LET prim == findOne(smtp_domain_usage, d)
        add  == IF inc THEN 1 ELSE 0
    IN  /\ interleaved' = [interleaved EXCEPT
               ![d] = @ \/ \E q \in Procs \ {p} : PendingWrite(q, d)]
        /\ recordedInWindow' =
               IF prim = 0 THEN [recordedInWindow EXCEPT ![d] = 0]
               ELSE IF prim # id THEN recordedInWindow
               ELSE IF smtp_domain_usage[prim].window_start # ws
                    THEN [recordedInWindow EXCEPT ![d] = add]
                    ELSE [recordedInWindow EXCEPT ![d] = @ + add]

(* ------------------------------------------------------------- sendEmail *)
(* lines 39-50 and the call of getNextAvailableDomain at line 71 *)
Call(p, tiers, maxCalls) ==
    /\ pc[p] = "idle"
    /\ calls < maxCalls
    /\ calls' = calls + 1
    /\ \E pro \in tiers :
        /\ isPro' = [isPro EXCEPT ![p] = pro]
        /\ IF pro
           THEN IF ~ PremiumConfigured
                THEN Finish(p, Thrown("ConfigurationError"))
                ELSE /\ pc' = [pc EXCEPT ![p] = "mailchimp"]
                     /\ outcome' = [outcome EXCEPT ![p] = Pending]
           ELSE /\ pc' = [pc EXCEPT ![p] = "getDomains"]
                /\ outcome' = [outcome EXCEPT ![p] = Pending]
    /\ domains' = [domains EXCEPT ![p] = <<>>]
    /\ idx' = [idx EXCEPT ![p] = 0]
    /\ usage' = [usage EXCEPT ![p] = NoDoc]
    /\ domain' = [domain EXCEPT ![p] = 0]
    /\ attempts' = [attempts EXCEPT ![p] = <<>>]
    /\ recorded' = [recorded EXCEPT ![p] = 0]
    /\ allocated' = [allocated EXCEPT ![p] = "no"]
    /\ UNCHANGED <<config, smtp_domain_usage, now, sendLog, ghosts>>

(* a rejected premium send handed on to the free-tier fallbacks *)
MailchimpSendFallsBack(p, ok) ==
    /\ pc[p] = "mailchimp"
    /\ attempts' = [attempts EXCEPT
           ![p] = Append(@, [via |-> Via("mailchimp", 0), ok |-> ok])]
    /\ IF ok
       THEN /\ sendLog' = Append(sendLog, [via |-> Via("mailchimp", 0), at |-> now])
            /\ Finish(p, Returned(Via("mailchimp", 0)))
       ELSE /\ sendLog' = sendLog
            /\ FallThrough(p)
    /\ UNCHANGED <<config, smtp_domain_usage, now, locals, recorded, allocated,
                   calls, ghosts>>

(* lines 53-62: the premium provider's send resolves or rejects *)
MailchimpSend(p, ok) ==
    /\ pc[p] = "mailchimp"
    /\ attempts' = [attempts EXCEPT
           ![p] = Append(@, [via |-> Via("mailchimp", 0), ok |-> ok])]
    /\ IF ok
       THEN /\ sendLog' = Append(sendLog, [via |-> Via("mailchimp", 0), at |-> now])
            /\ Finish(p, Returned(Via("mailchimp", 0)))
       ELSE /\ sendLog' = sendLog
            /\ Finish(p, Thrown("TransportFailure"))
    /\ UNCHANGED <<config, smtp_domain_usage, now, locals, recorded, allocated,
                   calls, ghosts>>

(* ------------------------------------------- DomainService, the allocator *)
(* the loop replaced by an access to the first element: an empty list      *)
(* raises inside the try block                                             *)
GetDomainsEmptyThrows(p) ==
    /\ pc[p] = "getDomains"
    /\ \E ds \in getDomains(smtp_domains) :
        /\ domains' = [domains EXCEPT ![p] = ds]
        /\ IF Len(ds) = 0
           THEN /\ idx' = idx
                /\ allocated' = [allocated EXCEPT ![p] = "threw"]
                /\ FallThrough(p)
           ELSE /\ idx' = [idx EXCEPT ![p] = 1]
                /\ allocated' = allocated
                /\ Goto(p, "hq_find")
    /\ UNCHANGED <<config, smtp_domain_usage, now, isPro, usage, domain,
                   attempts, recorded, calls, sendLog, ghosts>>

(* getNextAvailableDomain line 198: getDomains resolves; an empty list      *)
(* makes the loop body never run and the method return undefined            *)
GetDomains(p) ==
    /\ pc[p] = "getDomains"
    /\ \E ds \in getDomains(smtp_domains) :
        /\ domains' = [domains EXCEPT ![p] = ds]
        /\ IF Len(ds) = 0
           THEN /\ idx' = idx
                /\ allocated' = [allocated EXCEPT ![p] = "none"]
                /\ FallThrough(p)
           ELSE /\ idx' = [idx EXCEPT ![p] = 1]
                /\ allocated' = allocated
                /\ Goto(p, "hq_find")
    /\ UNCHANGED <<config, smtp_domain_usage, now, isPro, usage, domain,
                   attempts, recorded, calls, sendLog, ghosts>>

(* hasQuota lines 163-165 and the loop of getNextAvailableDomain (199-205), *)
(* then sendEmail's `if (domain)` at line 72                                *)
HasQuotaReturn(p, u) ==
    LET d == domains[p][idx[p]]
    IN  IF Available(u, d)
        THEN /\ domain' = [domain EXCEPT ![p] = d.id]
             /\ raceSeen' = [raceSeen EXCEPT
                    ![d.id] = @ \/ \E q \in Procs \ {p} : InFlight(q, d.id)]
             /\ idx' = idx
             /\ allocated' = [allocated EXCEPT ![p] = "domain"]
             /\ Goto(p, "sendMail")
        ELSE IF idx[p] < Len(domains[p])
        THEN /\ idx' = [idx EXCEPT ![p] = @ + 1]
             /\ Goto(p, "hq_find")
             /\ UNCHANGED <<domain, raceSeen, allocated>>
        ELSE /\ allocated' = [allocated EXCEPT ![p] = "none"]
             /\ FallThrough(p)
             /\ UNCHANGED <<idx, domain, raceSeen>>

(* the reset computed for the comparison only, never written back *)
HasQuotaBodyTransient(p, u) ==
    LET r == IF WindowExpired(u)
             THEN [u EXCEPT !.window_start = now, !.count = 0]
             ELSE u
    IN  /\ usage' = [usage EXCEPT ![p] = r]
        /\ HasQuotaReturn(p, r)

(* lines 155-162 lost: the stale record is compared as it is *)
HasQuotaBodyNoReset(p, u) ==
    /\ usage' = [usage EXCEPT ![p] = u]
    /\ HasQuotaReturn(p, u)

(* hasQuota lines 151-162 up to the await of updateOne *)
HasQuotaBody(p, u) ==
    IF WindowExpired(u)
    THEN /\ usage' = [usage EXCEPT
                ![p] = [u EXCEPT !.window_start = now, !.count = 0]]
         /\ Goto(p, "hq_update")
         /\ UNCHANGED <<idx, domain, raceSeen, allocated>>
    ELSE /\ usage' = [usage EXCEPT ![p] = u]
         /\ HasQuotaReturn(p, u)

(* incrementUsage lines 177-186 up to the await of updateOne *)
IncrementBody(p, u) ==
    /\ usage' = [usage EXCEPT ![p] = Incremented(u)]
    /\ Goto(p, "iu_update")
    /\ UNCHANGED <<idx, domain, raceSeen, allocated>>

(* getUsageDoc line 127: findOne resolves; a hit returns to the caller     *)
(* (hasQuota or incrementUsage), a miss builds newUsage and awaits insert  *)
GetUsageDocFind(p) ==
    /\ pc[p] \in {"hq_find", "iu_find"}
    /\ LET d == IF pc[p] = "hq_find" THEN domains[p][idx[p]].id ELSE domain[p]
           i == findOne(smtp_domain_usage, d)
       IN  IF i = 0
           THEN /\ usage' = [usage EXCEPT ![p] =
                       [_id |-> 0, domain_id |-> d,
                        window_start |-> now, count |-> 0]]
                /\ Goto(p, IF pc[p] = "hq_find" THEN "hq_insert" ELSE "iu_insert")
                /\ UNCHANGED <<idx, domain, raceSeen, allocated>>
           ELSE LET u == [_id |-> i, domain_id |-> d,
                          window_start |-> smtp_domain_usage[i].window_start,
                          count |-> smtp_domain_usage[i].count]
                IN  IF pc[p] = "hq_find" THEN HasQuotaBody(p, u)
                                         ELSE IncrementBody(p, u)
    /\ UNCHANGED <<config, smtp_domain_usage, now, isPro, domains, attempts,
                   recorded, calls, sendLog, interleaved, recordFailed,
                   recordedInWindow>>

(* getUsageDoc lines 134-137: insertOne resolves *)
GetUsageDocInsert(p) ==
    /\ pc[p] \in {"hq_insert", "iu_insert"}
    /\ LET u == [usage[p] EXCEPT !._id = Len(smtp_domain_usage) + 1]
       IN  /\ smtp_domain_usage' = insertOne(smtp_domain_usage, u)
           /\ NoteWrite(p, u.domain_id, u._id, u.window_start, FALSE)
           /\ IF pc[p] = "hq_insert" THEN HasQuotaBody(p, u)
                                     ELSE IncrementBody(p, u)
    /\ UNCHANGED <<config, now, isPro, domains, attempts, recorded, calls,
                   sendLog, recordFailed>>

(* hasQuota lines 158-161: the reset is persisted *)
HasQuotaUpdate(p) ==
    /\ pc[p] = "hq_update"
    /\ smtp_domain_usage' = updateOne(smtp_domain_usage, usage[p])
    /\ NoteWrite(p, usage[p].domain_id, usage[p]._id, usage[p].window_start, FALSE)
    /\ HasQuotaReturn(p, usage[p])
    /\ UNCHANGED <<config, now, isPro, domains, usage, attempts, recorded,
                   calls, sendLog, recordFailed>>

(* recordUsage moved out of the success path: it runs after a rejected send too *)
SendMailDomainAlwaysRecords(p, ok) ==
    /\ pc[p] = "sendMail"
    /\ attempts' = [attempts EXCEPT
           ![p] = Append(@, [via |-> Via("domain", domain[p]), ok |-> ok])]
    /\ sendLog' = IF ok THEN Append(sendLog,
                       [via |-> Via("domain", domain[p]), at |-> now])
                  ELSE sendLog
    /\ recorded' = [recorded EXCEPT ![p] = @ + 1]
    /\ Goto(p, "iu_find")
    /\ UNCHANGED <<config, smtp_domain_usage, now, locals, allocated, calls,
                   ghosts>>

(* line 93 lost: the send returns without recording usage *)
SendMailDomainSkipsRecord(p, ok) ==
    /\ pc[p] = "sendMail"
    /\ attempts' = [attempts EXCEPT
           ![p] = Append(@, [via |-> Via("domain", domain[p]), ok |-> ok])]
    /\ IF ok
       THEN /\ sendLog' = Append(sendLog,
                   [via |-> Via("domain", domain[p]), at |-> now])
            /\ Finish(p, Returned(Via("domain", domain[p])))
       ELSE /\ sendLog' = sendLog
            /\ FallThrough(p)
    /\ UNCHANGED <<config, smtp_domain_usage, now, locals, recorded, allocated,
                   calls, ghosts>>

(* sendEmail lines 83-93: transporter.sendMail resolves or rejects *)
SendMailDomain(p, ok) ==
    /\ pc[p] = "sendMail"
    /\ attempts' = [attempts EXCEPT
           ![p] = Append(@, [via |-> Via("domain", domain[p]), ok |-> ok])]
    /\ IF ok
       THEN /\ sendLog' = Append(sendLog,
                   [via |-> Via("domain", domain[p]), at |-> now])
            /\ recorded' = [recorded EXCEPT ![p] = @ + 1]
            /\ Goto(p, "iu_find")
       ELSE /\ UNCHANGED <<sendLog, recorded>>
            /\ FallThrough(p)
    /\ UNCHANGED <<config, smtp_domain_usage, now, locals, allocated, calls,
                   ghosts>>

(* incrementUsage lines 187-189, recordUsage returns, sendEmail line 94 *)
IncrementUpdate(p) ==
    /\ pc[p] = "iu_update"
    /\ smtp_domain_usage' = updateOne(smtp_domain_usage, usage[p])
    /\ NoteWrite(p, usage[p].domain_id, usage[p]._id, usage[p].window_start, TRUE)
    /\ Finish(p, Returned(Via("domain", domain[p])))
    /\ UNCHANGED <<config, now, locals, trace, calls, sendLog, raceSeen,
                   recordFailed>>

(* the try block without its catch: the rejection reaches the caller *)
DbFailPropagates(p) ==
    /\ pc[p] \in AllocPcs \cup RecordPcs
    /\ recordFailed' = IF pc[p] \in RecordPcs
                       THEN [recordFailed EXCEPT ![domain[p]] = TRUE]
                       ELSE recordFailed
    /\ Finish(p, Thrown("PersistenceError"))
    /\ UNCHANGED <<config, smtp_domain_usage, now, locals, trace, calls,
                   sendLog, raceSeen, interleaved, recordedInWindow>>

(* a persistence call inside the try block (lines 70-95) rejects; the      *)
(* catch at line 96 logs and execution continues at line 101               *)
DbFail(p) ==
    /\ pc[p] \in AllocPcs \cup RecordPcs
    /\ recordFailed' = IF pc[p] \in RecordPcs
                       THEN [recordFailed EXCEPT ![domain[p]] = TRUE]
                       ELSE recordFailed
    /\ FallThrough(p)
    /\ UNCHANGED <<config, smtp_domain_usage, now, locals, trace, calls,
                   sendLog, raceSeen, interleaved, recordedInWindow>>

(* the static send wrapped in a catch that goes on to the test mailbox *)
StaticSendFallsThrough(p, ok) ==
    /\ pc[p] = "staticSend"
    /\ attempts' = [attempts EXCEPT
           ![p] = Append(@, [via |-> Via("static", 0), ok |-> ok])]
    /\ IF ok
       THEN /\ sendLog' = Append(sendLog, [via |-> Via("static", 0), at |-> now])
            /\ Finish(p, Returned(Via("static", 0)))
       ELSE /\ sendLog' = sendLog
            /\ IF SmtpDevConfigured THEN Goto(p, "smtpDevPost")
               ELSE Finish(p, Thrown("TransportExhausted"))
    /\ UNCHANGED <<config, smtp_domain_usage, now, locals, recorded, allocated,
                   calls, ghosts>>

(* sendEmail lines 107-124: the static transport's sendMail is awaited     *)
(* outside any try block                                                    *)
StaticSend(p, ok) ==
    /\ pc[p] = "staticSend"
    /\ attempts' = [attempts EXCEPT
           ![p] = Append(@, [via |-> Via("static", 0), ok |-> ok])]
    /\ IF ok
       THEN /\ sendLog' = Append(sendLog, [via |-> Via("static", 0), at |-> now])
            /\ Finish(p, Returned(Via("static", 0)))
       ELSE /\ sendLog' = sendLog
            /\ Finish(p, Thrown("TransportFailure"))
    /\ UNCHANGED <<config, smtp_domain_usage, now, locals, recorded, allocated,
                   calls, ghosts>>

(* sendEmail lines 132-149: axios.post is awaited outside any try block *)
SmtpDevPost(p, ok) ==
    /\ pc[p] = "smtpDevPost"
    /\ attempts' = [attempts EXCEPT
           ![p] = Append(@, [via |-> Via("smtpdev", 0), ok |-> ok])]
    /\ IF ok
       THEN /\ sendLog' = Append(sendLog, [via |-> Via("smtpdev", 0), at |-> now])
            /\ Finish(p, Returned(Via("smtpdev", 0)))
       ELSE /\ sendLog' = sendLog
            /\ Finish(p, Thrown("TransportFailure"))
    /\ UNCHANGED <<config, smtp_domain_usage, now, locals, recorded, allocated,
                   calls, ghosts>>

(* ---------------------------------------------------------- receiveEmails *)
(* lines 165-176 and 188: premium users and free users without the three   *)
(* test-mailbox credentials get [] at once; otherwise axios.get is awaited *)
ReceiveEmails(p, tiers, maxCalls) ==
    /\ pc[p] = "idle"
    /\ calls < maxCalls
    /\ calls' = calls + 1
    /\ \E pro \in tiers :
        /\ isPro' = [isPro EXCEPT ![p] = pro]
        /\ IF pro
           THEN Finish(p, Returned(Via("empty", 0)))
           ELSE IF SmtpDevConfigured
           THEN /\ pc' = [pc EXCEPT ![p] = "mailboxGet"]
                /\ outcome' = [outcome EXCEPT ![p] = Pending]
           ELSE Finish(p, Returned(Via("empty", 0)))
    /\ domains' = [domains EXCEPT ![p] = <<>>]
    /\ idx' = [idx EXCEPT ![p] = 0]
    /\ usage' = [usage EXCEPT ![p] = NoDoc]
    /\ domain' = [domain EXCEPT ![p] = 0]
    /\ attempts' = [attempts EXCEPT ![p] = <<>>]
    /\ recorded' = [recorded EXCEPT ![p] = 0]
    /\ allocated' = [allocated EXCEPT ![p] = "no"]
    /\ UNCHANGED <<config, smtp_domain_usage, now, sendLog, ghosts>>

(* lines 177-187: axios.get resolves (the member list, or [] when absent)  *)
(* or rejects; it is awaited outside any try block                         *)
MailboxGet(p, ok) ==
    /\ pc[p] = "mailboxGet"
    /\ attempts' = [attempts EXCEPT
           ![p] = Append(@, [via |-> Via("mailbox", 0), ok |-> ok])]
    /\ IF ok
       THEN Finish(p, Returned(Via("mailbox", 0)))
       ELSE Finish(p, Thrown("TransportFailure"))
    /\ UNCHANGED <<config, smtp_domain_usage, now, locals, recorded, allocated,
                   calls, sendLog, ghosts>>

(* -------------------------------------------------------------- addDomain *)
AddPcs == {"ad_connect", "ad_count", "ad_insert"}

(* the values of config.limit and config.order an administrator may pass;  *)
(* `limit` is typed number and nothing narrows it                          *)
DomainInputs ==
    [limit : (0 - 1)..MaxLimit, order : Orders, hasOrder : {TRUE}]
        \cup [limit : (0 - 1)..MaxLimit, order : {0}, hasOrder : {FALSE}]

(* addDomain lines 83-85: the call, up to the await of connectToDatabase *)
AddDomain(p, cfg, maxCalls) ==
    /\ pc[p] = "idle"
    /\ calls < maxCalls
    /\ calls' = calls + 1
    /\ doc' = [doc EXCEPT ![p] = cfg]
    /\ pc' = [pc EXCEPT ![p] = "ad_connect"]
    /\ outcome' = [outcome EXCEPT ![p] = Pending]
    /\ UNCHANGED <<smtp_domains, env, responses, nextCalls, smtp_domain_usage,
                   now, locals, trace, sendLog, ghosts>>

(* lines 85-92: connected; a missing order awaits countDocuments, a given  *)
(* one goes on to build the document and await insertOne                   *)
AddDomainConnect(p) ==
    /\ pc[p] = "ad_connect"
    /\ Goto(p, IF doc[p].hasOrder THEN "ad_insert" ELSE "ad_count")
    /\ UNCHANGED <<config, smtp_domain_usage, now, locals, trace, calls,
                   sendLog, ghosts>>

(* lines 90-91: order = the number of stored documents *)
AddDomainCount(p) ==
    /\ pc[p] = "ad_count"
    /\ doc' = [doc EXCEPT ![p] = [@ EXCEPT !.order = Len(smtp_domains)]]
    /\ Goto(p, "ad_insert")
    /\ UNCHANGED <<smtp_domains, env, responses, nextCalls, smtp_domain_usage,
                   now, locals, trace, calls, sendLog, ghosts>>

(* lines 93-108: insertOne stores the document with config.limit as given  *)
(* and the new DomainConfig is returned                                    *)
AddDomainInsert(p) ==
    /\ pc[p] = "ad_insert"
    /\ smtp_domains' = Append(smtp_domains,
           [id |-> Len(smtp_domains) + 1,
            limit |-> doc[p].limit, order |-> doc[p].order])
    /\ Finish(p, Returned(Via("added", Len(smtp_domains) + 1)))
    /\ UNCHANGED <<env, doc, responses, nextCalls, smtp_domain_usage, now,
                   locals, trace, calls, sendLog, ghosts>>

(* lines 109-112: a persistence call rejects; null is returned *)
AddDomainFail(p) ==
    /\ pc[p] \in AddPcs
    /\ Finish(p, Returned(Via("null", 0)))
    /\ UNCHANGED <<config, smtp_domain_usage, now, locals, trace, calls,
                   sendLog, ghosts>>

(* ----------------------------------------------------------- authenticate *)
(* what authenticate distinguishes in a request: the Authorization header, *)
(* the shape and signature of the token, and its payload                   *)
AuthRequests ==
    [header : {"absent", "bearer"}, parts : {2, 3}, signed : BOOLEAN,
     payload : {"unparsable", "noUserId", "expired", "valid"}]

Response(status, error) == [status |-> status, error |-> error]

(* res.status(..).json(..) followed by the return of authenticate *)
Respond(p, status, error) ==
    /\ responses' = [responses EXCEPT ![p] = Append(@, Response(status, error))]
    /\ Finish(p, Returned(Via("response", status)))

(* auth.ts lines 21-59: the synchronous checks of a request, up to the     *)
(* await of connectToDatabase; JSON.parse throwing is caught at line 69    *)
Authenticate(p, req, maxCalls) ==
    /\ pc[p] = "idle"
    /\ calls < maxCalls
    /\ calls' = calls + 1
    /\ nextCalls' = [nextCalls EXCEPT ![p] = 0]
    /\ LET fresh == [responses EXCEPT ![p] = <<>>]
           reply(status, error) ==
               /\ responses' = [fresh EXCEPT ![p] = <<Response(status, error)>>]
               /\ Finish(p, Returned(Via("response", status)))
       IN  IF req.header # "bearer"
           THEN reply(401, "Missing or invalid authorization header")
           ELSE IF "JWT_SECRET" \notin env
           THEN reply(500, "Server misconfiguration")
           ELSE IF req.parts # 3 \/ ~ req.signed
           THEN reply(401, "Invalid or expired token")
           ELSE IF req.payload = "unparsable"
           THEN reply(401, "Invalid token")
           ELSE IF req.payload = "noUserId"
           THEN reply(401, "Invalid token payload")
           ELSE IF req.payload = "expired"
           THEN reply(401, "Token expired")
           ELSE /\ responses' = fresh
                /\ pc' = [pc EXCEPT ![p] = "au_connect"]
                /\ outcome' = [outcome EXCEPT ![p] = Pending]
    /\ UNCHANGED <<smtp_domains, env, doc, smtp_domain_usage, now, locals,
                   trace, sendLog, ghosts>>

(* line 59: connectToDatabase resolves, or rejects into the catch of line  *)
(* 69                                                                      *)
AuthConnect(p, ok) ==
    /\ pc[p] = "au_connect"
    /\ IF ok
       THEN Goto(p, "au_findUser") /\ UNCHANGED responses
       ELSE Respond(p, 401, "Invalid token")
    /\ UNCHANGED <<smtp_domains, env, doc, nextCalls, smtp_domain_usage, now,
                   locals, trace, calls, sendLog, ghosts>>

(* lines 60-76: findOne resolves with a user, resolves with null, or       *)
(* rejects.  With a user, next() is called at line 68, the inner try ends  *)
(* without returning, and next() is called again at line 76.               *)
AuthFindUser(p, found) ==
    /\ pc[p] = "au_findUser"
    /\ IF found = "user"
       THEN /\ nextCalls' = [nextCalls EXCEPT ![p] = @ + 2]
            /\ responses' = responses
            /\ Finish(p, Returned(Via("next", 0)))
       ELSE /\ nextCalls' = nextCalls
            /\ IF found = "null" THEN Respond(p, 401, "User not found")
                                 ELSE Respond(p, 401, "Invalid token")
    /\ UNCHANGED <<smtp_domains, env, doc, smtp_domain_usage, now, locals,
                   trace, calls, sendLog, ghosts>>

(* the clock of `new Date()` advances *)
Tick ==
    /\ now < MaxTicks * HalfWindow
    /\ now' = now + HalfWindow
    /\ UNCHANGED <<config, smtp_domain_usage, pc, locals, outcome, trace,
                   calls, sendLog, ghosts>>

(* -------------------------------------------------------- specifications *)
DomainShapes == [limit : Limits, order : Orders]

Registries(maxLen, shapes) ==
    UNION {{[i \in 1..n |-> [id |-> i, limit |-> f[i].limit, order |-> f[i].order]] :
               f \in [1..n -> shapes]} : n \in 0..maxLen}

InitWith(regs, envs) ==
    /\ smtp_domains \in regs
    /\ env \in envs
    /\ smtp_domain_usage = <<>>
    /\ now = 0
    /\ pc = [p \in Procs |-> "idle"]
    /\ isPro = [p \in Procs |-> FALSE]
    /\ domains = [p \in Procs |-> <<>>]
    /\ idx = [p \in Procs |-> 0]
    /\ usage = [p \in Procs |-> NoDoc]
    /\ domain = [p \in Procs |-> 0]
    /\ outcome = [p \in Procs |-> NotCalled]
    /\ attempts = [p \in Procs |-> <<>>]
    /\ recorded = [p \in Procs |-> 0]
    /\ allocated = [p \in Procs |-> "no"]
    /\ calls = 0
    /\ sendLog = <<>>
    /\ raceSeen = [d \in DomainIds |-> FALSE]
    /\ interleaved = [d \in DomainIds |-> FALSE]
    /\ recordFailed = [d \in DomainIds |-> FALSE]
    /\ recordedInWindow = [d \in DomainIds |-> 0]
    /\ doc = [p \in Procs |-> NoConfig]
    /\ responses = [p \in Procs |-> <<>>]
    /\ nextCalls = [p \in Procs |-> 0]

AllocatorStep(p) ==
    \/ GetDomains(p)
    \/ GetUsageDocFind(p)
    \/ GetUsageDocInsert(p)
    \/ HasQuotaUpdate(p)
    \/ \E ok \in BOOLEAN : SendMailDomain(p, ok)
    \/ IncrementUpdate(p)
    \/ DbFail(p)

FallbackStep(p) ==
    \/ \E ok \in BOOLEAN : StaticSend(p, ok)
    \/ \E ok \in BOOLEAN : SmtpDevPost(p, ok)

PremiumStep(p) == \E ok \in BOOLEAN : MailchimpSend(p, ok)

(* registries of every length up to MaxDomains: any orders with one limit  *)
(* common to all domains, or any limits with the storage order the reverse *)
(* of the priority order                                                   *)
SomeRegistries ==
    {r \in Registries(MaxDomains, DomainShapes) :
        \/ \A i, j \in 1..Len(r) : r[i].limit = r[j].limit
        \/ \A i \in 1..Len(r) : r[i].order = Len(r) - i}

(* environments: any premium credentials beside complete fallbacks, or no  *)
(* premium credentials and each fallback complete, empty or short of one   *)
(* value                                                                   *)
Holes(group) == {group, {}} \cup {group \ {v} : v \in group}

SomeEnvironments ==
    {P \cup StaticVars \cup SmtpDevVars : P \in SUBSET PremiumVars}
        \cup {S \cup D : S \in Holes(StaticVars), D \in Holes(SmtpDevVars)}

OneDomain == [limit : {1}, order : {0}]

(* Spec: requests served one at a time.  Either one of the registries with *)
(* no environment transport, or one of the environments with at most one   *)
(* domain.                                                                 *)
Init ==
    \/ InitWith(SomeRegistries, {{}})
    \/ InitWith(Registries(1, OneDomain), SomeEnvironments)

Next ==
    \/ Call(1, BOOLEAN, MaxCalls)
    \/ AllocatorStep(1)
    \/ FallbackStep(1)
    \/ PremiumStep(1)
    \/ Tick

Spec == Init /\ [][Next]_vars

(* SpecConc: free-tier requests of several callers interleaved at every    *)
(* await, one domain of limit 1, no environment transport.                 *)
InitConc == InitWith(Registries(1, OneDomain) \ {<<>>}, {{}})

NextConc ==
    \/ \E p \in Procs : Call(p, {FALSE}, MaxCalls)
    \/ \E p \in Procs : AllocatorStep(p)
    \/ Tick

SpecConc == InitConc /\ [][NextConc]_vars

(* SpecScenario: three domains of order 0, 1, 2 and limit 1 each, stored   *)
(* in any order; fresh usage; one free-tier caller; no environment         *)
(* transport; every send and every persistence call succeeds; the clock    *)
(* stays inside the first window.                                          *)
ScenarioOrders == {0, 1, 2}

ScenarioRegistries ==
    {r \in Registries(Cardinality(ScenarioOrders), [limit : {1}, order : ScenarioOrders]) :
        /\ Len(r) = Cardinality(ScenarioOrders)
        /\ \A i, j \in 1..Len(r) : i # j => r[i].order # r[j].order}

ScenarioCalls == Cardinality(ScenarioOrders) + 1

InitScenario == InitWith(ScenarioRegistries, {{}})

TickInsideWindow == Tick /\ now' < WINDOW_MS

NextScenario ==
    \/ Call(1, {FALSE}, ScenarioCalls)
    \/ GetDomains(1)
    \/ GetUsageDocFind(1)
    \/ GetUsageDocInsert(1)
    \/ SendMailDomain(1, TRUE)
    \/ IncrementUpdate(1)
    \/ TickInsideWindow

SpecScenario == InitScenario /\ [][NextScenario]_vars

(* SpecReceive: receiveEmails calls of one caller of either tier, in every *)
(* one of the environments; the mailbox fetch resolves or rejects.         *)
InitReceive == InitWith(Registries(1, OneDomain), SomeEnvironments)

NextReceive ==
    \/ ReceiveEmails(1, BOOLEAN, MaxCalls)
    \/ \E ok \in BOOLEAN : MailboxGet(1, ok)

SpecReceive == InitReceive /\ [][NextReceive]_vars

(* SpecLive: one free-tier caller, one to MaxDomains domains of limit 1,   *)
(* no environment transport; every send and every persistence call         *)
(* succeeds.  Fairness: an awaited call resolves, the clock advances, and  *)
(* sendEmail keeps being called while calls remain.                        *)
InitLive ==
    InitWith(Registries(MaxDomains, [limit : {1}, order : Orders]) \ {<<>>}, {{}})

CallLive == Call(1, {FALSE}, MaxCalls)

StepLive ==
    \/ GetDomains(1)
    \/ GetUsageDocFind(1)
    \/ GetUsageDocInsert(1)
    \/ HasQuotaUpdate(1)
    \/ SendMailDomain(1, TRUE)
    \/ IncrementUpdate(1)

NextLive == CallLive \/ StepLive \/ Tick

SpecLive ==
    /\ InitLive /\ [][NextLive]_vars
    /\ WF_vars(CallLive) /\ WF_vars(StepLive) /\ WF_vars(Tick)

(* SpecAdmin: addDomain calls of one administrator on an empty registry,   *)
(* with any limit from -1 to MaxLimit and an order given or left out.      *)
InitAdmin == InitWith({<<>>}, {{}})

NextAdmin ==
    \/ \E cfg \in DomainInputs : AddDomain(1, cfg, MaxCalls)
    \/ AddDomainConnect(1)
    \/ AddDomainCount(1)
    \/ AddDomainInsert(1)
    \/ AddDomainFail(1)

SpecAdmin == InitAdmin /\ [][NextAdmin]_vars

(* SpecAuth: requests through authenticate, interleaved at its awaits,     *)
(* with JWT_SECRET set or not.                                             *)
InitAuth == InitWith({<<>>}, {{}, {"JWT_SECRET"}})

NextAuth ==
    \/ \E p \in Procs, req \in AuthRequests : Authenticate(p, req, MaxCalls)
    \/ \E p \in Procs, ok \in BOOLEAN : AuthConnect(p, ok)
    \/ \E p \in Procs, found \in {"user", "null", "rejected"} :
           AuthFindUser(p, found)

SpecAuth == InitAuth /\ [][NextAuth]_vars

(* ================================================================ claims *)
Range(f) == {f[i] : i \in DOMAIN f}

(* the persisted count of domain e (0 while it has no usage document) *)
PersistedCount(e) ==
    LET i == findOne(smtp_domain_usage, e.id)
    IN  IF i = 0 THEN 0 ELSE smtp_domain_usage[i].count

HasQuotaLeft(e) == PersistedCount(e) < e.limit

(* ---- C1 (SpecScenario) ------------------------------------------------ *)
(* C1: with domains of order 0, 1, 2 and limit 1 each, the k-th of three   *)
(* consecutive free-tier calls is sent through the domain of order k-1 and *)
(* returns that send; the fourth call sends nothing and throws the         *)
(* transport-exhausted error.                                              *)
C1_Rotation ==
    /\ Len(sendLog) <= Cardinality(ScenarioOrders)
    /\ \A k \in 1..Len(sendLog) :
          /\ sendLog[k].via.kind = "domain"
          /\ smtp_domains[sendLog[k].via.id].order = k - 1
    /\ (pc[1] = "idle" /\ calls \in 1..Cardinality(ScenarioOrders)) =>
          /\ Len(sendLog) = calls
          /\ outcome[1] = Returned(sendLog[calls].via)
    /\ (pc[1] = "idle" /\ calls = ScenarioCalls) =>
          /\ Len(sendLog) = Cardinality(ScenarioOrders)
          /\ outcome[1] = Thrown("TransportExhausted")

C1_Witness ==
    /\ calls = ScenarioCalls
    /\ pc[1] = "idle"
    /\ outcome[1] = Thrown("TransportExhausted")
    /\ Len(sendLog) = Cardinality(ScenarioOrders)
    /\ smtp_domains[1].order # 0

(* ---- C2 (Spec) -------------------------------------------------------- *)
(* C2: when getNextAvailableDomain returns a domain, that domain has       *)
(* persisted count below its limit and no domain with quota left has a     *)
(* lower order; every domain the loop has passed over has no quota left;   *)
(* and it returns undefined only when no domain has quota left.  Counts    *)
(* are the persisted ones, i.e. after the reset the check itself wrote.    *)
C2_Selection ==
    \A p \in Procs :
        /\ pc[p] \in {"hq_find", "hq_insert", "hq_update"} =>
              \A j \in 1..(idx[p] - 1) : ~ HasQuotaLeft(domains[p][j])
        /\ pc[p] = "sendMail" =>
              /\ allocated[p] = "domain"
              /\ HasQuotaLeft(smtp_domains[domain[p]])
              /\ \A e \in Range(smtp_domains) :
                    HasQuotaLeft(e) => smtp_domains[domain[p]].order <= e.order
        /\ allocated[p] = "none" =>
              \A e \in Range(smtp_domains) : ~ HasQuotaLeft(e)

(* C2, the step: the check that passes a domain over leaves its record     *)
(* unexpired with count >= limit; the check that selects one leaves its    *)
(* record unexpired with count < limit.                                    *)
C2_Check ==
    \A p \in Procs :
        LET d == domains[p][idx[p]]
            i == findOne(smtp_domain_usage', d.id)
            passed   == pc[p] \in {"hq_find", "hq_insert", "hq_update"}
                        /\ (idx'[p] = idx[p] + 1 \/ allocated'[p] = "none")
            selected == pc[p] \in {"hq_find", "hq_insert", "hq_update"}
                        /\ allocated'[p] = "domain"
        IN  /\ passed =>
                /\ i # 0
                /\ smtp_domain_usage'[i].count >= d.limit
                /\ now - smtp_domain_usage'[i].window_start < WINDOW_MS
            /\ selected =>
                /\ i # 0
                /\ domain'[p] = d.id
                /\ smtp_domain_usage'[i].count < d.limit
                /\ now - smtp_domain_usage'[i].window_start < WINDOW_MS

(* C2: getNextAvailableDomain returns the lowest-order domain whose count, *)
(* after the reset of an expired window, is below its limit, never passes  *)
(* over a domain that has quota left, and returns undefined only when no   *)
(* domain has quota left.                                                  *)
C2_LowestOrderWins == [] C2_Selection /\ [][C2_Check]_vars

C2_Witness ==
    /\ pc[1] = "sendMail"
    /\ idx[1] = 2
    /\ smtp_domains[domain[1]].order > domains[1][1].order
    /\ smtp_domains[1].order > smtp_domains[2].order

(* ---- C3 (Spec) -------------------------------------------------------- *)
(* C3: with calls served one at a time and every limit >= 1, every usage   *)
(* document's count is at most the limit of its domain.                    *)
C3_CountWithinLimit ==
    (\A e \in Range(smtp_domains) : e.limit >= 1) =>
        \A k \in 1..Len(smtp_domain_usage) :
            smtp_domain_usage[k].count
                <= smtp_domains[smtp_domain_usage[k].domain_id].limit

C3_Witness ==
    \E k \in 1..Len(smtp_domain_usage) :
        /\ smtp_domains[smtp_domain_usage[k].domain_id].limit >= 2
        /\ smtp_domain_usage[k].count
               = smtp_domains[smtp_domain_usage[k].domain_id].limit
        /\ \A e \in Range(smtp_domains) : e.limit >= 1

(* ---- C4 (SpecConc) ---------------------------------------------------- *)
(* successful sends through domain d at or after the window_start of its   *)
(* usage document                                                          *)
SentInWindow(d) ==
    LET i == findOne(smtp_domain_usage, d)
    IN  Cardinality({k \in 1..Len(sendLog) :
            /\ sendLog[k].via = Via("domain", d)
            /\ sendLog[k].at >= smtp_domain_usage[i].window_start})

Overshoot(d) ==
    /\ findOne(smtp_domain_usage, d) # 0
    /\ SentInWindow(d) > smtp_domains[d].limit

(* C4: more than `limit` sends through a domain inside its window happen,  *)
(* and they happen only after a caller saw the domain available while      *)
(* another caller that had seen it available had not yet persisted its     *)
(* increment, or after a caller acted on a usage record that was written   *)
(* since it read it, or after a recordUsage that ended in an error.        *)
C4_OvershootByRace ==
    \A d \in 1..Len(smtp_domains) :
        Overshoot(d) => (raceSeen[d] \/ interleaved[d] \/ recordFailed[d])

C4_Witness ==
    \E d \in 1..Len(smtp_domains) :
        /\ Overshoot(d)
        /\ raceSeen[d]
        /\ ~ recordFailed[d]
        /\ ~ interleaved[d]
        /\ Len(smtp_domain_usage) = 1
        /\ now < WINDOW_MS
        /\ \A p \in Procs : pc[p] = "idle"

(* ---- C5 (SpecConc) ---------------------------------------------------- *)
LostUpdate(d) ==
    LET i == findOne(smtp_domain_usage, d)
    IN  /\ i # 0
        /\ smtp_domain_usage[i].count < recordedInWindow[d]

(* C5: the persisted count falls below the number of recordUsage calls     *)
(* completed in the window, and it does so only after a write landed       *)
(* between another caller's read of the usage record and its write.        *)
C5_LostUpdateByInterleaving ==
    \A d \in 1..Len(smtp_domains) : LostUpdate(d) => interleaved[d]

C5_Witness ==
    \E d \in 1..Len(smtp_domains) :
        /\ LostUpdate(d)
        /\ interleaved[d]
        /\ now < WINDOW_MS
        /\ \A p \in Procs : pc[p] = "idle"

(* ---- C6 (Spec) -------------------------------------------------------- *)
DomainAttempts(p, ok) ==
    {k \in 1..Len(attempts[p]) :
        attempts[p][k].via.kind = "domain" /\ attempts[p][k].ok = ok}

C6_Recorded ==
    \A p \in Procs :
        /\ recorded[p] = Cardinality(DomainAttempts(p, TRUE))
        /\ recorded[p] <= 1
        /\ pc[p] \in RecordPcs =>
              attempts[p] = <<[via |-> Via("domain", domain[p]), ok |-> TRUE]>>
        /\ outcome[p].via.kind = "domain" =>
              /\ recorded[p] = 1
              /\ outcome[p].via = Via("domain", domain[p])
        /\ DomainAttempts(p, FALSE) # {} =>
              /\ recorded[p] = 0
              /\ pc[p] \notin RecordPcs
              /\ outcome[p].via.kind # "domain"

(* a count of 1 or more is written only by the caller whose send through   *)
(* that domain succeeded, at the end of its one recordUsage                *)
C6_CountStep ==
    \A k \in 1..Len(smtp_domain_usage') :
        ( /\ smtp_domain_usage'[k].count >= 1
          /\ (k > Len(smtp_domain_usage)
                \/ smtp_domain_usage'[k] # smtp_domain_usage[k]) ) =>
        \E p \in Procs :
            /\ pc[p] = "iu_update" /\ pc'[p] = "idle"
            /\ recorded[p] = 1
            /\ attempts[p] = <<[via |-> Via("domain", smtp_domain_usage'[k].domain_id),
                                ok |-> TRUE]>>

(* C6: a free-tier call invokes recordUsage exactly once when its send     *)
(* through the selected domain succeeded, after that send and for that     *)
(* domain; when the send failed it does not invoke recordUsage and writes  *)
(* no increment.                                                           *)
C6_RecordOncePerSuccess == [] C6_Recorded /\ [][C6_CountStep]_vars

C6_Witness ==
    /\ pc[1] = "idle"
    /\ outcome[1] = Returned(Via("domain", 1))
    /\ recorded[1] = 1
    /\ PersistedCount(smtp_domains[1]) = 2

(* ---- C7 (Spec) -------------------------------------------------------- *)
CallBy(p) ==
    /\ pc[p] = "idle"
    /\ calls' = calls + 1
    /\ \A q \in Procs \ {p} : pc'[q] = pc[q] /\ attempts'[q] = attempts[q]

C7_Misconfigured ==
    \A p \in Procs :
        (isPro[p] /\ ~ (PremiumVars \subseteq env)) =>
            /\ pc[p] = "idle"
            /\ outcome[p] = Thrown("ConfigurationError")
            /\ attempts[p] = <<>>
            /\ allocated[p] = "no"
            /\ recorded[p] = 0

C7_CallStep ==
    \A p \in Procs :
        (CallBy(p) /\ isPro'[p] /\ ~ (PremiumVars \subseteq env)) =>
            /\ pc'[p] = "idle"
            /\ outcome'[p] = Thrown("ConfigurationError")
            /\ sendLog' = sendLog
            /\ smtp_domain_usage' = smtp_domain_usage

(* C7: a premium call with either premium credential missing throws the    *)
(* configuration error in the step that starts it, tries no transport,     *)
(* does not consult the allocator, and changes no usage record.            *)
C7_PremiumMisconfigured == [] C7_Misconfigured /\ [][C7_CallStep]_vars

C7_Witness ==
    /\ isPro[1]
    /\ outcome[1] = Thrown("ConfigurationError")
    /\ env \cap PremiumVars = {"MAILCHIMP_API_KEY"}
    /\ StaticConfigured /\ SmtpDevConfigured
    /\ Len(smtp_domain_usage) = 1
    /\ smtp_domain_usage[1].count = 1

(* ---- C8 (Spec) -------------------------------------------------------- *)
C8_PremiumOnly ==
    \A p \in Procs :
        isPro[p] =>
            /\ pc[p] \in {"idle", "mailchimp"}
            /\ allocated[p] = "no"
            /\ domains[p] = <<>> /\ domain[p] = 0 /\ usage[p] = NoDoc
            /\ recorded[p] = 0
            /\ Len(attempts[p]) <= 1
            /\ \A k \in 1..Len(attempts[p]) : attempts[p][k].via = Via("mailchimp", 0)
            /\ attempts[p] = <<[via |-> Via("mailchimp", 0), ok |-> FALSE]>> =>
                  pc[p] = "idle" /\ outcome[p] = Thrown("TransportFailure")
            /\ attempts[p] = <<[via |-> Via("mailchimp", 0), ok |-> TRUE]>> =>
                  pc[p] = "idle" /\ outcome[p] = Returned(Via("mailchimp", 0))

C8_UsageStep ==
    \A p \in Procs :
        (isPro'[p] /\ (CallBy(p) \/ pc'[p] # pc[p] \/ attempts'[p] # attempts[p])) =>
            smtp_domain_usage' = smtp_domain_usage

(* C8: a premium call never consults the allocator and attempts no         *)
(* transport but the premium provider, whether that send succeeds or       *)
(* fails; a failed premium send is thrown to the caller; no step of the    *)
(* call changes the usage collection.                                      *)
C8_PremiumNeverDowngraded == [] C8_PremiumOnly /\ [][C8_UsageStep]_vars

C8_Witness ==
    /\ isPro[1]
    /\ attempts[1] = <<[via |-> Via("mailchimp", 0), ok |-> FALSE]>>
    /\ outcome[1] = Thrown("TransportFailure")
    /\ StaticConfigured /\ SmtpDevConfigured
    /\ Len(smtp_domains) = 1
    /\ Len(smtp_domain_usage) = 1

(* ---- C9 (Spec) -------------------------------------------------------- *)
StrategyPcs == AllocPcs \cup {"sendMail"} \cup RecordPcs

C9_Step ==
    \A p \in Procs :
        ( /\ pc[p] \in StrategyPcs
          /\ pc'[p] \notin StrategyPcs
          /\ outcome'[p].via.kind # "domain" ) =>
        IF StaticVars \subseteq env
        THEN pc'[p] = "staticSend" /\ outcome'[p] = Pending
        ELSE IF SmtpDevVars \subseteq env
        THEN pc'[p] = "smtpDevPost" /\ outcome'[p] = Pending
        ELSE pc'[p] = "idle" /\ outcome'[p] = Thrown("TransportExhausted")

(* C9: every way a free-tier call leaves the allocated-domain strategy     *)
(* without having returned through it (no domain available, a rejected     *)
(* persistence call, a rejected send) throws nothing to the caller from    *)
(* that strategy: the call goes on to the static SMTP strategy, awaiting   *)
(* its send when the four values are configured.                           *)
C9_AllocatorFailureFallsThrough == [][C9_Step]_vars

C9_Witness ==
    /\ pc[1] = "staticSend"
    /\ attempts[1] = <<[via |-> Via("domain", 1), ok |-> FALSE]>>
    /\ outcome[1] = Pending

(* ---- C10 (Spec) ------------------------------------------------------- *)
StaticFailed(p) ==
    \E k \in 1..Len(attempts[p]) :
        attempts[p][k] = [via |-> Via("static", 0), ok |-> FALSE]

(* C10 as stated: after a rejected static send the call goes on to the     *)
(* test mailbox when its credentials are configured, and otherwise throws  *)
(* the transport-exhausted error.                                          *)
C10_StaticFailureFallsThrough ==
    \A p \in Procs :
        StaticFailed(p) =>
            IF SmtpDevVars \subseteq env
            THEN \/ pc[p] = "smtpDevPost"
                 \/ attempts[p][Len(attempts[p])].via = Via("smtpdev", 0)
            ELSE outcome[p] = Thrown("TransportExhausted")

(* C10 amended: a rejected static send ends the call: the transport's      *)
(* error is thrown to the caller and the test mailbox is not tried.        *)
C10_StaticFailurePropagates ==
    \A p \in Procs :
        StaticFailed(p) =>
            /\ pc[p] = "idle"
            /\ outcome[p] = Thrown("TransportFailure")
            /\ attempts[p][Len(attempts[p])] = [via |-> Via("static", 0), ok |-> FALSE]

C10_Witness ==
    /\ StaticFailed(1)
    /\ ~ isPro[1]
    /\ SmtpDevConfigured
    /\ outcome[1] = Thrown("TransportFailure")

(* ---- C11 (Spec) ------------------------------------------------------- *)
(* every configured domain has a usage record in an unexpired window whose *)
(* count has reached the limit                                             *)
PoolExhausted ==
    \A e \in Range(smtp_domains) :
        LET i == findOne(smtp_domain_usage, e.id)
        IN  /\ i # 0
            /\ smtp_domain_usage[i].count >= e.limit
            /\ now - smtp_domain_usage[i].window_start < WINDOW_MS

StaticOnly(p) == attempts[p] = <<[via |-> Via("static", 0), ok |-> TRUE]>>

C11_State ==
    \A p \in Procs :
        /\ (~ isPro[p] /\ allocated[p] = "none" /\ StaticVars \subseteq env) =>
              /\ recorded[p] = 0
              /\ pc[p] \in {"staticSend", "idle"}
              /\ pc[p] = "staticSend" => attempts[p] = <<>>
        /\ (~ isPro[p] /\ StaticOnly(p)) =>
              /\ pc[p] = "idle"
              /\ outcome[p] = Returned(Via("static", 0))
              /\ recorded[p] = 0

(* a step of a free-tier call taken while the pool is exhausted *)
C11_Step ==
    \A p \in Procs :
        ( /\ PoolExhausted
          /\ ~ isPro'[p]
          /\ (CallBy(p) \/ pc[p] \in AllocPcs \cup {"staticSend"})
          /\ pc'[p] # pc[p] ) =>
        /\ smtp_domain_usage' = smtp_domain_usage
        /\ recorded'[p] = 0
        /\ pc'[p] \notin {"hq_insert", "hq_update", "sendMail"} \cup RecordPcs
        /\ \A k \in 1..Len(attempts'[p]) : attempts'[p][k].via.kind = "static"
        /\ (StaticVars \subseteq env /\ pc[p] \in {"hq_find", "getDomains"}
               /\ pc'[p] \notin AllocPcs) => pc'[p] = "staticSend"

(* C11: while every configured domain has count >= limit in an unexpired   *)
(* window, no step of a free-tier call changes a usage record, selects a   *)
(* domain or invokes recordUsage; with the four static values configured   *)
(* the call goes to the static send, and when that send succeeds the call  *)
(* returns its result.                                                     *)
C11_ExhaustedPoolUsesStatic == [] C11_State /\ [][C11_Step]_vars

C11_Witness ==
    /\ pc[1] = "idle"
    /\ ~ isPro[1]
    /\ allocated[1] = "none"
    /\ StaticOnly(1)
    /\ outcome[1] = Returned(Via("static", 0))
    /\ Len(smtp_domains) = 1
    /\ PoolExhausted
    /\ smtp_domain_usage[1].count = 1

(* ---- C12 (Spec) ------------------------------------------------------- *)
(* C12: a free-tier call for which getNextAvailableDomain returned no      *)
(* domain, with the static values not all present and the test-mailbox     *)
(* credentials not all present, has thrown the transport-exhausted error   *)
(* and has tried no transport.                                             *)
C12_NoTransportIsExhausted ==
    \A p \in Procs :
        ( /\ ~ isPro[p]
          /\ allocated[p] = "none"
          /\ ~ (StaticVars \subseteq env)
          /\ ~ (SmtpDevVars \subseteq env) ) =>
        /\ pc[p] = "idle"
        /\ outcome[p] = Thrown("TransportExhausted")
        /\ attempts[p] = <<>>

C12_Witness ==
    /\ allocated[1] = "none"
    /\ outcome[1] = Thrown("TransportExhausted")
    /\ attempts[1] = <<>>
    /\ Cardinality(env \cap StaticVars) = 3
    /\ Cardinality(env \cap SmtpDevVars) = 2
    /\ Len(smtp_domains) = 1
    /\ PoolExhausted

(* ---- C13 (Spec) ------------------------------------------------------- *)
(* p took a step of its own that was not a rejected persistence call *)
Moved(p)    == pc'[p] # pc[p] \/ idx'[p] # idx[p]
Rejected(p) == pc'[p] \notin StrategyPcs /\ allocated'[p] = "no"

C13_Pending ==
    \A p \in Procs :
        pc[p] = "hq_update" =>
            /\ usage[p].count = 0
            /\ usage[p].window_start <= now
            /\ usage[p].window_start
                   - smtp_domain_usage[usage[p]._id].window_start >= WINDOW_MS

C13_Step ==
    \A p \in Procs :
        LET d == domains[p][idx[p]]
            i == findOne(smtp_domain_usage, d.id)
        IN  /\ (pc[p] = "hq_find" /\ i # 0 /\ Moved(p) /\ ~ Rejected(p)) =>
                IF now - smtp_domain_usage[i].window_start >= WINDOW_MS
                THEN /\ pc'[p] = "hq_update"
                     /\ usage'[p] = [_id |-> i, domain_id |-> d.id,
                                     window_start |-> now, count |-> 0]
                     /\ smtp_domain_usage' = smtp_domain_usage
                ELSE /\ pc'[p] # "hq_update"
                     /\ smtp_domain_usage' = smtp_domain_usage
                     /\ allocated'[p] = "domain"
                            <=> smtp_domain_usage[i].count < d.limit
            /\ (pc[p] = "hq_update" /\ Moved(p) /\ ~ Rejected(p)) =>
                /\ smtp_domain_usage' = [smtp_domain_usage EXCEPT
                       ![usage[p]._id] = [domain_id |-> d.id,
                                          window_start |-> usage[p].window_start,
                                          count |-> 0]]
                /\ allocated'[p] = "domain" <=> 0 < d.limit

(* C13: a hasQuota check that finds the record's window expired (elapsed   *)
(* >= one hour at the time of the check) persists count = 0 and            *)
(* window_start = the time of the check, and decides availability on the   *)
(* reset count; a check that finds the window unexpired writes nothing and *)
(* decides on the stored count.                                            *)
C13_ResetPersisted == [] C13_Pending /\ [][C13_Step]_vars

C13_Witness ==
    /\ pc[1] = "sendMail"
    /\ now = WINDOW_MS
    /\ usage[1]._id # 0
    /\ smtp_domain_usage[usage[1]._id].count = 0
    /\ smtp_domain_usage[usage[1]._id].window_start = now
    /\ \E k \in 1..Len(sendLog) :
           sendLog[k].via = Via("domain", domain[1]) /\ sendLog[k].at < now

(* ---- C14 (Spec) ------------------------------------------------------- *)
C14_Pending ==
    \A p \in Procs :
        pc[p] = "iu_update" =>
            LET r == smtp_domain_usage[usage[p]._id]
            IN  \/ usage[p].window_start = r.window_start
                      /\ usage[p].count = r.count + 1
                \/ usage[p].window_start - r.window_start >= WINDOW_MS
                      /\ usage[p].count = 1

C14_Step ==
    \A p \in Procs :
        LET i == findOne(smtp_domain_usage, domain[p])
        IN  /\ (pc[p] = "iu_find" /\ pc'[p] = "iu_update") =>
                LET r == smtp_domain_usage[i]
                IN  /\ i # 0
                    /\ usage'[p]._id = i
                    /\ IF now - r.window_start >= WINDOW_MS
                       THEN usage'[p].window_start = now /\ usage'[p].count = 1
                       ELSE /\ usage'[p].window_start = r.window_start
                            /\ usage'[p].count = r.count + 1
                    /\ smtp_domain_usage' = smtp_domain_usage
            /\ (pc[p] = "iu_update" /\ pc'[p] = "idle"
                   /\ outcome'[p].status = "returned") =>
                smtp_domain_usage' = [smtp_domain_usage EXCEPT
                    ![usage[p]._id] = [domain_id |-> domain[p],
                                       window_start |-> usage[p].window_start,
                                       count |-> usage[p].count]]

(* C14: recordUsage on a record whose window is unexpired persists the     *)
(* previous count + 1 and the same window_start; on a record whose window  *)
(* has expired (elapsed >= one hour) it persists window_start = now and    *)
(* count = 1 whatever the previous count was.                              *)
C14_IncrementOrRestart == [] C14_Pending /\ [][C14_Step]_vars

C14_Witness ==
    /\ pc[1] = "iu_update"
    /\ usage[1].count = 1
    /\ usage[1].window_start = now
    /\ smtp_domain_usage[usage[1]._id].count = 1
    /\ smtp_domain_usage[usage[1]._id].window_start < now
    /\ Len(sendLog) = 2

(* ---- C15 (Spec) ------------------------------------------------------- *)
(* successful sends through domain d in the hour that starts at time t *)
SentInHourFrom(d, t) ==
    Cardinality({k \in 1..Len(sendLog) :
        /\ sendLog[k].via = Via("domain", d)
        /\ sendLog[k].at >= t
        /\ sendLog[k].at < t + WINDOW_MS})

(* C15: with calls served one at a time, in every interval of one hour     *)
(* (starting at any time, not only at a stored window_start) the number of *)
(* successful sends through a domain is at most the domain's limit.  Stated *)
(* for the domains whose every recordUsage completed, so that a violation   *)
(* is one of the window arithmetic alone.                                   *)
C15_RollingWindow ==
    \A d \in 1..Len(smtp_domains) :
        ~ recordFailed[d] =>
            \A k \in 1..Len(sendLog) :
                SentInHourFrom(d, sendLog[k].at) <= smtp_domains[d].limit

(* ---- C16 (SpecConc) --------------------------------------------------- *)
(* C16: the usage collection never holds two records with the same         *)
(* domain_id, also when getUsageDoc calls of concurrent requests           *)
(* interleave; a record is created with count 0.                           *)
C16_OneRecordPerDomain ==
    /\ \A i, j \in 1..Len(smtp_domain_usage) :
           smtp_domain_usage[i].domain_id = smtp_domain_usage[j].domain_id
               => i = j
    /\ \A p \in Procs :
           pc[p] \in {"hq_insert", "iu_insert"} => usage[p].count = 0

(* ---- C17 (Spec) ------------------------------------------------------- *)
C17_State ==
    smtp_domains = <<>> =>
        /\ smtp_domain_usage = <<>>
        /\ \A p \in Procs :
              /\ pc[p] \notin StrategyPcs \ {"getDomains"}
              /\ domain[p] = 0 /\ usage[p] = NoDoc /\ recorded[p] = 0
              /\ allocated[p] \in {"no", "none"}

(* the step that ends getNextAvailableDomain; allocated stays "no" only    *)
(* when the registry query itself was rejected                             *)
C17_Step ==
    \A p \in Procs :
        (smtp_domains = <<>> /\ pc[p] = "getDomains" /\ pc'[p] # pc[p]) =>
            /\ allocated'[p] \in {"none", "no"}
            /\ domains'[p] = <<>>
            /\ smtp_domain_usage' = smtp_domain_usage
            /\ outcome'[p] \in {Pending, Thrown("TransportExhausted")}

(* C17: with no configured domain getNextAvailableDomain returns undefined *)
(* ("none"): it raises nothing, and no usage record is created or changed; *)
(* the call then goes on to the fallback strategies.                       *)
C17_EmptyPoolIsNone == [] C17_State /\ [][C17_Step]_vars

C17_Witness ==
    /\ smtp_domains = <<>>
    /\ smtp_domain_usage = <<>>
    /\ allocated[1] = "none"
    /\ pc[1] = "idle"
    /\ outcome[1] = Returned(Via("static", 0))

(* ---- C18 (SpecReceive) ------------------------------------------------ *)
NoFetch(p) ==
    /\ pc[p] = "idle"
    /\ outcome[p] = Returned(Via("empty", 0))
    /\ attempts[p] = <<>>

(* C18: a receiveEmails call of a premium user, or of a free user with any *)
(* of the three test-mailbox credentials absent, returns the empty list    *)
(* without a network call and without an error; only a free user's call    *)
(* with all three present fetches the mailbox, and only that fetch can     *)
(* make the call fail.                                                     *)
C18_ReceiveNeverMisconfigured ==
    \A p \in Procs :
        outcome[p] # NotCalled =>
            /\ isPro[p] => NoFetch(p)
            /\ (~ isPro[p] /\ ~ (SmtpDevVars \subseteq env)) => NoFetch(p)
            /\ (~ isPro[p] /\ SmtpDevVars \subseteq env) =>
                  \/ pc[p] = "mailboxGet" /\ attempts[p] = <<>>
                        /\ outcome[p] = Pending
                  \/ pc[p] = "idle"
                        /\ attempts[p] = <<[via |-> Via("mailbox", 0), ok |-> TRUE]>>
                        /\ outcome[p] = Returned(Via("mailbox", 0))
                  \/ pc[p] = "idle"
                        /\ attempts[p] = <<[via |-> Via("mailbox", 0), ok |-> FALSE]>>
                        /\ outcome[p] = Thrown("TransportFailure")
            /\ outcome[p].status \notin {"ConfigurationError", "TransportExhausted"}

C18_Witness ==
    /\ calls = MaxCalls
    /\ ~ isPro[1]
    /\ Cardinality(env \cap SmtpDevVars) = 2
    /\ NoFetch(1)

(* ---- C19 (Spec) ------------------------------------------------------- *)
(* C19: within one sendEmail call, once a transport send has succeeded no  *)
(* further strategy is attempted (also when the recordUsage that follows   *)
(* fails), and the finished call has returned that transport's result.     *)
C19_AtMostOneTransport ==
    \A p \in Procs :
        \A k \in 1..Len(attempts[p]) :
            attempts[p][k].ok =>
                /\ k = Len(attempts[p])
                /\ pc[p] \notin {"staticSend", "smtpDevPost"}
                /\ pc[p] = "idle" => outcome[p] = Returned(attempts[p][k].via)

(* ---- C20 (SpecLive) --------------------------------------------------- *)
(* d has the lowest order of all configured domains *)
LowestOrder(d) ==
    \A e \in 1..Len(smtp_domains) :
        e # d => smtp_domains[d].order < smtp_domains[e].order

(* d is exhausted, an hour or more has passed since its window_start, and  *)
(* a further sendEmail call can be made                                    *)
ExhaustedAndDue(d) ==
    /\ d \in 1..Len(smtp_domains)
    /\ LET i == findOne(smtp_domain_usage, d)
       IN  /\ i # 0
           /\ smtp_domains[d].limit >= 1
           /\ smtp_domain_usage[i].count >= smtp_domains[d].limit
           /\ now - smtp_domain_usage[i].window_start >= WINDOW_MS
    /\ LowestOrder(d)
    /\ pc[1] = "idle"
    /\ calls < MaxCalls

(* the send through d has just resolved, on a record that the check reset  *)
SentAfterReset(d) ==
    /\ pc[1] = "iu_find"
    /\ domain[1] = d
    /\ allocated[1] = "domain"
    /\ sendLog # <<>>
    /\ sendLog[Len(sendLog)].via = Via("domain", d)
    /\ PersistedCount(smtp_domains[d]) = 0

(* C20: an exhausted lowest-order domain whose window_start lies an hour   *)
(* or more back is reset and reported available by the next check, and the *)
(* next call sends through it: from every such state a send through the   *)
(* domain eventually happens.                                              *)
C20_ExhaustedDomainRecovers ==
    \A d \in DomainIds : ExhaustedAndDue(d) ~> SentAfterReset(d)

C20_Witness ==
    \E d \in 1..Len(smtp_domains) :
        /\ SentAfterReset(d)
        /\ LowestOrder(d)
        /\ Len(smtp_domains) >= 2
        /\ Len(sendLog) >= 2
        /\ sendLog[1].via = Via("domain", d)
        /\ sendLog[1].at + WINDOW_MS <= now

(* ---- C21 (SpecAdmin) -------------------------------------------------- *)
(* C21: after any sequence of addDomain calls every stored DomainConfig    *)
(* has limit > 0.                                                          *)
C21_StoredLimitPositive ==
    \A i \in 1..Len(smtp_domains) : smtp_domains[i].limit > 0

(* ---- C22 (SpecAuth) --------------------------------------------------- *)
(* C22: for every request authenticate either sends exactly one error      *)
(* response and never calls next(), or calls next() exactly once and sends *)
(* no response; while it is still awaiting it has done neither.            *)
C22_OneResponseOrOneNext ==
    \A p \in Procs :
        /\ pc[p] \in {"au_connect", "au_findUser"} =>
              responses[p] = <<>> /\ nextCalls[p] = 0
        /\ (pc[p] = "idle" /\ outcome[p].via.kind \in {"response", "next"}) =>
              \/ Len(responses[p]) = 1 /\ nextCalls[p] = 0
              \/ responses[p] = <<>> /\ nextCalls[p] = 1

====
